---- MODULE Spec2Model ----
(***************************************************************************)
(* Model of the two law scrapers of this repository:                       *)
(*   src/belgium_scraper.py  scrape_belgium_laws                           *)
(*   src/congo_scraper.py    scrape_drc_laws                               *)
(* Each scraper is one sequential procedure driving a browser session; it  *)
(* is modelled as a process whose position is pc.  The web site and the    *)
(* driver are the environment: what the site serves and where the driver   *)
(* raises is fixed per site (variable site) so that a second run against   *)
(* the same site sees the same behaviour.  The disk (fs, ledgerFile)       *)
(* survives from one run to the next; the module global METADATA does not. *)
(***************************************************************************)
EXTENDS Naturals, Integers, Sequences, FiniteSets

\* ------------------------------------------------------------------ bounds
\* Longest listing the site serves.
MaxLinks == 2
\* Most links of one listing at which a step raises.
MaxFaults == 1
\* Number of consecutive runs of the script against the same site and disk.
MaxRuns == 2

\* ------------------------------------------------- characters and strings
\* A string is a sequence of characters; a character is a one-element token.
\* "e_acute" / "E_ACUTE" stand for the letters U+00E9 / U+00C9.
UpperChars == {"L", "A", "E_ACUTE"}
LowerChars == {"l", "o", "i", "a", "r", "t", "e_acute"}
DigitChars == {"0", "1", "2"}
\* Python 3 str patterns: \w is [a-zA-Z0-9_] plus every Unicode letter/digit.
WordChars == UpperChars \cup LowerChars \cup DigitChars \cup {"_"}
NonWordChars == {" ", "!", "/", "-", "."}
Chars == WordChars \cup NonWordChars

\* str.lower() on one character.
LowerOf(c) ==
    CASE c = "L" -> "l"
      [] c = "A" -> "a"
      [] c = "E_ACUTE" -> "e_acute"
      [] OTHER -> c

\* s[:n]
Take(s, n) == IF Len(s) <= n THEN s ELSE SubSeq(s, 1, n)

\* Python slice s[a:b] with a, b possibly negative (counted from the end),
\* both clamped to [0, len(s)].
PyIndex(s, k) ==
    IF k < 0 THEN (IF Len(s) + k < 0 THEN 0 ELSE Len(s) + k)
    ELSE (IF k > Len(s) THEN Len(s) ELSE k)

PySlice(s, a, b) ==
    IF PyIndex(s, a) >= PyIndex(s, b) THEN << >>
    ELSE SubSeq(s, PyIndex(s, a) + 1, PyIndex(s, b))

\* re.sub('\W+', ' ', s): every maximal run of non-word characters becomes
\* one space.  Each character of a run but its last is struck out (marked
\* by the empty token), the last becomes the space.
SubNonWord(s) ==
    SelectSeq([k \in 1..Len(s) |->
                  IF s[k] \in WordChars THEN s[k]
                  ELSE IF k < Len(s) /\ s[k + 1] \notin WordChars THEN ""
                  ELSE " "],
              LAMBDA c : c # "")

\* re.sub(' ', '-', s)
SubSpace(s) == [k \in 1..Len(s) |-> IF s[k] = " " THEN "-" ELSE s[k]]

\* str.lower()
Lower(s) == [k \in 1..Len(s) |-> LowerOf(s[k])]

\* re.sub(' ', '-', re.sub('\W+',' ', s)).lower()
Normalize(s) == Lower(SubSpace(SubNonWord(s)))

\* Truncation lengths of the identifiers.
BelgiumMaxLen == 250
DrcTitleMaxLen == 200
DrcTextMaxLen == 50
\* Offsets of the slices the DRC scraper cuts from the page text.
DrcTitleFrom == 300
DrcTitleTo == 550
DrcExtractFrom == 300
DrcExtractTo == 250

\* belgium_scraper.filename_maker
filename_maker(law_name) == Take(Normalize(law_name), BelgiumMaxLen)

\* belgium_scraper.generate_file_name joined with the module directory:
\* DOWNLOAD_PATH + language + '/' + type + '/' + title + '.' + type
generate_file_name(law_name, type, language) ==
    [root |-> "./data/belgium/", language |-> language, type |-> type,
     name |-> filename_maker(law_name)]

\* Mutant: the normalized title is not cut to DrcTitleMaxLen characters.
drc_file_path_uncut(law_name, law_text, type, language) ==
    [root |-> "./data/DRC/", language |-> language, type |-> type,
     name |-> Normalize(law_name) \o Take(Normalize(law_text), DrcTextMaxLen)]

\* The path congo_scraper.create_destination_file builds:
\* DOWNLOAD_PATH + language + '/' + type + '/' + title + law_text + '.' + type
drc_file_path(law_name, law_text, type, language) ==
    [root |-> "./data/DRC/", language |-> language, type |-> type,
     name |-> Take(Normalize(law_name), DrcTitleMaxLen)
              \o Take(Normalize(law_text), DrcTextMaxLen)]

\* ------------------------------------------------------- the site served
\* The documents the site can list.  Documents 1 and 2 have different titles
\* that normalize to the same identifier; document 3 differs.
Docs == {1, 2, 3}

Rep(c, n) == [k \in 1..n |-> c]

\* Text of the title element of document d (Belgium: /html/body/h3/center/u).
DocTitle ==
    [d \in Docs |->
        CASE d = 1 -> <<"L", "o", "i", " ", "1">>
          [] d = 2 -> <<"l", "o", "i", "!", "/", "1">>
          [] d = 3 -> <<"L", "o", "i", " ", "2">>]

\* Visible text of the page of document d (soup.get_text()): an opening, an
\* article line, filler, and the title at character offset 300.
DocText ==
    [d \in Docs |->
        Rep(".", 20) \o <<"A", "r", "t", " ">> \o (IF d = 3 THEN <<"2">> ELSE <<"1">>)
        \o Rep(" ", 275) \o DocTitle[d]]

\* What the site and the driver do, fixed for the life of the site:
\*   scraper   which script is run against it
\*   listing   the documents behind the links of a listing page, in order
\*   faults    per link index, the step of the item at which the driver or
\*             the filesystem raises ("none": no step raises)
\*   ctl       what the lookup of the category control does: "ok" finds it,
\*             "none" yields None, "raise" raises; ctlAt: at which category
\*   bound     whether the name `languages` resolves when line 160 runs
\*             (the module itself binds only LANGUAGES)
\*   shrinks   whether the listing page, once returned to from a document,
\*             lists one link fewer (its last) than when first opened
Scrapers == {"belgium", "drc"}
DrcFaults == {"none", "click", "extract", "open", "write"}
BelgiumFaults == DrcFaults \cup {"back"}
FaultsOf(s) == IF s = "belgium" THEN BelgiumFaults ELSE DrcFaults
CtlKinds == {"ok", "none", "raise"}

\* belgium_scraper.LANGUAGES, in insertion order; the DRC scraper has the
\* single language 'french'.
LANGUAGES == <<"french", "dutch", "german">>
CategoriesOf(s) == IF s = "belgium" THEN LANGUAGES ELSE <<"french">>

Listings == UNION {[1..n -> Docs] : n \in 0..MaxLinks}

Sites ==
    {st \in [scraper : Scrapers, listing : Listings,
             faults : UNION {[1..n -> BelgiumFaults] : n \in 0..MaxLinks},
             ctl : CtlKinds, ctlAt : 1..Len(LANGUAGES), bound : BOOLEAN,
             shrinks : BOOLEAN] :
        /\ Len(st.faults) = Len(st.listing)
        /\ \A k \in 1..Len(st.faults) : st.faults[k] \in FaultsOf(st.scraper)
        /\ Cardinality({k \in 1..Len(st.faults) : st.faults[k] # "none"}) <= MaxFaults
        /\ st.ctlAt <= Len(CategoriesOf(st.scraper))
        /\ (st.ctl = "ok" => st.ctlAt = 1)
        /\ (st.scraper = "drc" => st.bound)
        \* with the name unbound nothing else of the site is ever read
        /\ (~st.bound => st.listing = << >> /\ st.ctl = "ok")
        \* only scrape_belgium_laws returns to the listing and reads it again,
        \* and a listing of one link is never indexed after the return
        /\ (st.shrinks => st.scraper = "belgium" /\ Len(st.listing) >= 2)}

\* ------------------------------------------------------------------ state
VARIABLES
    site,        \* the site the run is against (never changes)
    run,         \* number of the current run of the script
    pc,          \* position of the scraper in its procedure
    lang,        \* index into the categories of the language being crawled
    all_links,   \* the link handles held by the crawl loop
    rangeLen,    \* the bound range(len(all_links)) was built with
    i,           \* loop index (0-based, as in the source)
    page,        \* [title, text] read from the open document, or NoPage
    METADATA,    \* the module-level ledger list
    epoch,       \* number of navigation events of the session so far
    fs,          \* the output directory: a set of [path, text, complete]
    ledgerFile,  \* metadata.json: [written, records]
    session,     \* the browser session: [open, frame]
    obs          \* observations of the run (history, not program state)

vars == <<site, run, pc, lang, all_links, rangeLen, i, page, METADATA, epoch,
          fs, ledgerFile, session, obs>>

\* No browser: before ChromeBot() of this process.
NoSession == [open |-> FALSE, frame |-> "default"]
NoPage == [title |-> << >>, text |-> << >>, doc |-> 0]
NoFile == [written |-> FALSE, records |-> << >>]
\* Python's None where a path is expected.
None == [root |-> "None", language |-> "", type |-> "", name |-> << >>]

NoObs ==
    [enum |-> 0,            \* enumerations of the link set in this category
     flush |-> 0,           \* write_metadata_json calls in this run
     crawled |-> 0,         \* categories whose item loop ran to its end
     selected |-> << >>,    \* categories whose control lookup was attempted
     attempted |-> {},      \* <<category, index>> of the links clicked
     raised |-> {},         \* <<category, index>> of the items that raised
     recorded |-> {},       \* <<category, index>> of the items appended
     stale |-> 0,           \* clicks on a handle older than the last navigation
     writes |-> 0,          \* files opened for writing in this run
     cause |-> "none",      \* what ended the run abnormally
     ctlFailedAt |-> 0,     \* category whose control lookup failed
     prevEnd |-> "none"]    \* how the previous run ended

Init ==
    /\ site \in Sites
    /\ run = 1
    /\ pc = "start"
    /\ lang = 0
    /\ all_links = << >>
    /\ rangeLen = 0
    /\ i = 0
    /\ page = NoPage
    /\ METADATA = << >>
    /\ epoch = 0
    /\ fs = {}
    /\ ledgerFile = NoFile
    /\ session = NoSession
    /\ obs = NoObs

\* ---------------------------------------------------- filesystem and ledger
\* os.path.exists(p)
Exists(disk, p) == \E f \in disk : f.path = p

\* open(p, 'w') followed by file.write(text): the file is created or
\* truncated; complete tells whether write() returned.
WriteFile(disk, p, text, complete) ==
    {f \in disk : f.path # p} \cup {[path |-> p, text |-> text, complete |-> complete]}

\* Mutant: the existence check is dropped, the path is always handed out.
be_create_destination_file_nocheck(title, type, language, disk) ==
    generate_file_name(title, type, language)

\* belgium_scraper.create_destination_file: the path, or None when it exists.
be_create_destination_file(title, type, language, disk) ==
    IF Exists(disk, generate_file_name(title, type, language))
    THEN None
    ELSE generate_file_name(title, type, language)

\* Mutant: the existence check is dropped, the path is always handed out.
drc_create_destination_file_nocheck(law_name, law_text, type, language, disk) ==
    drc_file_path(law_name, law_text, type, language)

\* congo_scraper.create_destination_file: the path, or None when it exists.
drc_create_destination_file(law_name, law_text, type, language, disk) ==
    IF Exists(disk, drc_file_path(law_name, law_text, type, language))
    THEN None
    ELSE drc_file_path(law_name, law_text, type, language)

\* Mutant: list.insert(0, ...) instead of list.append(...).
be_append_to_metadata_front(meta, law_name, pdf_link, filename, language) ==
    <<[title |-> law_name, link |-> pdf_link, download_path |-> filename,
       language |-> language, country |-> "Belgium"]>> \o meta

\* belgium_scraper.append_to_metadata (download_date is the day of the run,
\* the same for every record of a run, and left out).
be_append_to_metadata(meta, law_name, pdf_link, filename, language) ==
    Append(meta, [title |-> law_name, link |-> pdf_link, download_path |-> filename,
                  language |-> language, country |-> "Belgium"])

\* congo_scraper.append_to_metadata
drc_append_to_metadata(meta, law_name, file_link, filename, language) ==
    Append(meta, [title |-> law_name, link |-> file_link, download_path |-> filename,
                  language |-> language, country |-> "DRC"])

\* write_metadata_json: json.dump(METADATA) over the ledger file.
write_metadata_json(meta) == [written |-> TRUE, records |-> meta]

\* Mutant: the record is appended before the file is written, so it stays in
\* the ledger when the write raises.
WriteAndRecordEarly(dest, fault, text, disk, meta, newMeta) ==
    IF dest = None
    THEN [fs |-> disk, meta |-> meta, raised |-> FALSE, opened |-> FALSE,
          appended |-> FALSE]
    ELSE IF fault = "open"
    THEN [fs |-> disk, meta |-> newMeta, raised |-> TRUE, opened |-> FALSE,
          appended |-> TRUE]
    ELSE IF fault = "write"
    THEN [fs |-> WriteFile(disk, dest, << >>, FALSE), meta |-> newMeta,
          raised |-> TRUE, opened |-> TRUE, appended |-> TRUE]
    ELSE [fs |-> WriteFile(disk, dest, text, TRUE), meta |-> newMeta,
          raised |-> FALSE, opened |-> TRUE, appended |-> TRUE]

\* The body of `if destination_file is not None:` in both crawl loops: open
\* and write the file, then append the record.  fault is the step that
\* raises for this item; newMeta is the ledger with the record appended.
\* Yields the disk and ledger afterwards and whether an exception left it.
WriteAndRecord(dest, fault, text, disk, meta, newMeta) ==
    IF dest = None
    THEN [fs |-> disk, meta |-> meta, raised |-> FALSE, opened |-> FALSE,
          appended |-> FALSE]
    ELSE IF fault = "open"
    THEN [fs |-> disk, meta |-> meta, raised |-> TRUE, opened |-> FALSE,
          appended |-> FALSE]
    ELSE IF fault = "write"
    THEN [fs |-> WriteFile(disk, dest, << >>, FALSE), meta |-> meta,
          raised |-> TRUE, opened |-> TRUE, appended |-> FALSE]
    ELSE [fs |-> WriteFile(disk, dest, text, TRUE), meta |-> newMeta,
          raised |-> FALSE, opened |-> TRUE, appended |-> TRUE]

\* find_xpath on the link locator: fresh handles, one per listed document.
find_links(listing, now) == [k \in 1..Len(listing) |-> [item |-> k, epoch |-> now]]

\* Whether clicking handle h now uses a handle older than the last navigation.
IsStale(h, now) == h.epoch # now

\* ChromeBot(headless): a browser is started, at the default content.
ChromeBot == [open |-> TRUE, frame |-> "default"]

\* The frame contexts the driver may be in after element.click() loaded a new
\* page while the session was in frame f: the driver may keep the context of
\* the calls made so far or fall back to the default content.
AfterClick(f) == {f, "default"}

\* bot.switch_to_frame(...) / bot.switch_to_default() on session ses.
switch_to_frame(ses, f) == [ses EXCEPT !.frame = f]
switch_to_default(ses) == [ses EXCEPT !.frame = "default"]

\* The listing read again after the return from a document (line 219).
ListingAfterReturn ==
    IF site.shrinks THEN SubSeq(site.listing, 1, Len(site.listing) - 1)
    ELSE site.listing

FaultAt(k) == site.faults[k + 1]
DocAt(k) == site.listing[all_links[k + 1].item]
Crash(why) == [obs EXCEPT !.cause = why]

\* --------------------------------------------------------- scrape_drc_laws
\* Lines 140-152: start the bot, load START_URL, look the listing control up
\* and click it.  A lookup that yields None returns from the function; one
\* that raises (or a click that raises) leaves the function by exception.
DrcStart ==
    /\ site.scraper = "drc"
    /\ pc = "start"
    /\ lang' = 1
    /\ session' = ChromeBot
    /\ IF site.ctl = "none"
       THEN /\ pc' = "returned"
            /\ epoch' = epoch + 1
            /\ obs' = [obs EXCEPT !.selected = Append(@, 1), !.ctlFailedAt = 1]
       ELSE IF site.ctl = "raise"
       THEN /\ pc' = "crashed"
            /\ epoch' = epoch + 1
            /\ obs' = [obs EXCEPT !.selected = Append(@, 1), !.ctlFailedAt = 1,
                                  !.cause = "control"]
       ELSE /\ pc' = "enum"
            /\ epoch' = epoch + 2
            /\ obs' = [obs EXCEPT !.selected = Append(@, 1)]
    /\ UNCHANGED <<site, run, all_links, rangeLen, i, page, METADATA, fs, ledgerFile>>

\* Lines 155-156: collect the links once; range(len(all_links)) is fixed here.
DrcEnum ==
    /\ site.scraper = "drc"
    /\ pc = "enum"
    /\ all_links' = find_links(site.listing, epoch)
    /\ rangeLen' = Len(site.listing)
    /\ i' = 0
    /\ obs' = [obs EXCEPT !.enum = @ + 1]
    /\ pc' = "item"
    /\ UNCHANGED <<site, run, lang, page, METADATA, epoch, fs, ledgerFile, session>>

\* Lines 159-162: loop test, then click all_links[i] inside the try.
DrcItem ==
    /\ site.scraper = "drc"
    /\ pc = "item"
    /\ IF i >= rangeLen
       THEN /\ pc' = "flush"
            /\ obs' = [obs EXCEPT !.crawled = @ + 1]
            /\ UNCHANGED <<i, epoch>>
       ELSE IF FaultAt(i) = "click"
       THEN \* except: print, next iteration
            /\ pc' = "item"
            /\ i' = i + 1
            /\ obs' = [obs EXCEPT !.attempted = @ \cup {<<lang, i>>},
                                  !.raised = @ \cup {<<lang, i>>},
                                  !.stale = @ + (IF IsStale(all_links[i + 1], epoch)
                                                 THEN 1 ELSE 0)]
            /\ UNCHANGED epoch
       ELSE /\ pc' = "extract"
            /\ epoch' = epoch + 1
            /\ obs' = [obs EXCEPT !.attempted = @ \cup {<<lang, i>>},
                                  !.stale = @ + (IF IsStale(all_links[i + 1], epoch)
                                                 THEN 1 ELSE 0)]
            /\ UNCHANGED i
    /\ UNCHANGED <<site, run, lang, all_links, rangeLen, page, METADATA, fs, ledgerFile, session>>

\* Lines 172-181: read url and page source, take the text, cut the title
\* text_soup[300:550] and the extract text_soup[-300:-250].
DrcExtract ==
    /\ site.scraper = "drc"
    /\ pc = "extract"
    /\ IF FaultAt(i) = "extract"
       THEN /\ pc' = "item"
            /\ i' = i + 1
            /\ obs' = [obs EXCEPT !.raised = @ \cup {<<lang, i>>}]
            /\ UNCHANGED page
       ELSE /\ pc' = "persist"
            /\ page' = [title |-> PySlice(DocText[DocAt(i)], DrcTitleFrom, DrcTitleTo),
                        text |-> DocText[DocAt(i)], doc |-> DocAt(i)]
            /\ UNCHANGED <<i, obs>>
    /\ UNCHANGED <<site, run, lang, all_links, rangeLen, METADATA, epoch, fs, ledgerFile, session>>

\* Outcome of lines 183-189 for the page read.
DrcPersistOutcome ==
    LET dest == drc_create_destination_file(
                    page.title,
                    PySlice(page.text, 0 - DrcExtractFrom, 0 - DrcExtractTo),
                    "txt", "french", fs)
    IN WriteAndRecord(dest, FaultAt(i), page.text, fs, METADATA,
                      drc_append_to_metadata(METADATA, page.title, page.doc, dest,
                                             "french"))

\* Lines 183-191: build the path, write the file and append the record unless
\* the path exists; any exception is swallowed by the bare except.
DrcPersist ==
    /\ site.scraper = "drc"
    /\ pc = "persist"
    /\ fs' = DrcPersistOutcome.fs
    /\ METADATA' = DrcPersistOutcome.meta
    /\ obs' = [obs EXCEPT
                 !.raised = IF DrcPersistOutcome.raised THEN @ \cup {<<lang, i>>} ELSE @,
                 !.recorded = IF DrcPersistOutcome.appended THEN @ \cup {<<lang, i>>} ELSE @,
                 !.writes = @ + (IF DrcPersistOutcome.opened THEN 1 ELSE 0)]
    /\ i' = i + 1
    /\ page' = NoPage
    /\ pc' = "item"
    /\ UNCHANGED <<site, run, lang, all_links, rangeLen, epoch, ledgerFile, session>>

\* Lines 194-197: write the ledger, print the totals, end.
DrcFlush ==
    /\ site.scraper = "drc"
    /\ pc = "flush"
    /\ ledgerFile' = write_metadata_json(METADATA)
    /\ obs' = [obs EXCEPT !.flush = @ + 1]
    /\ pc' = "done"
    /\ UNCHANGED <<site, run, lang, all_links, rangeLen, i, page, METADATA, epoch, fs, session>>

\* ----------------------------------------------------- scrape_belgium_laws
\* Lines 151-160: start the bot, load START_URL, evaluate list(languages).
\* The module binds LANGUAGES, not languages: unless the name is bound from
\* outside, the loop header raises NameError.
BeStart ==
    /\ site.scraper = "belgium"
    /\ pc = "start"
    /\ epoch' = epoch + 1
    /\ session' = ChromeBot
    /\ IF site.bound
       THEN /\ pc' = "select"
            /\ lang' = 1
            /\ obs' = obs
       ELSE /\ pc' = "crashed"
            /\ lang' = lang
            /\ obs' = Crash("name")
    /\ UNCHANGED <<site, run, all_links, rangeLen, i, page, METADATA, fs, ledgerFile>>

\* Mutant: `continue` instead of `return`: the next language is tried.
BeOnControlNoneContinue(l) == [pc |-> "select", lang |-> l + 1]

\* Where the language loop goes when the language control lookup yields
\* None (lines 165-166: `return`), as [pc, lang].
BeOnControlNone(l) == [pc |-> "returned", lang |-> l]

\* Lines 160-168: next language of the loop, or the end of the function
\* (line 224); look the language button up and click it.
BeSelect ==
    /\ site.scraper = "belgium"
    /\ pc = "select"
    /\ IF lang > Len(LANGUAGES)
       THEN /\ pc' = "done"
            /\ UNCHANGED <<lang, epoch, obs, session>>
       ELSE IF site.ctl = "none" /\ site.ctlAt = lang
       THEN /\ pc' = BeOnControlNone(lang).pc
            /\ lang' = BeOnControlNone(lang).lang
            /\ obs' = [obs EXCEPT !.selected = Append(@, lang), !.ctlFailedAt = lang]
            /\ UNCHANGED <<epoch, session>>
       ELSE IF site.ctl = "raise" /\ site.ctlAt = lang
       THEN /\ pc' = "crashed"
            /\ obs' = [obs EXCEPT !.selected = Append(@, lang), !.ctlFailedAt = lang,
                                  !.cause = "control"]
            /\ UNCHANGED <<lang, epoch, session>>
       ELSE /\ pc' = "enum"
            /\ epoch' = epoch + 1
            /\ \E f \in AfterClick(session.frame) : session' = [session EXCEPT !.frame = f]
            /\ obs' = [obs EXCEPT !.selected = Append(@, lang)]
            /\ UNCHANGED lang
    /\ UNCHANGED <<site, run, all_links, rangeLen, i, page, METADATA, fs, ledgerFile>>

\* Lines 172-176: switch to the listing frame and collect the links;
\* range(0, len(all_links)) is fixed here.
BeEnum ==
    /\ site.scraper = "belgium"
    /\ pc = "enum"
    /\ epoch' = epoch + 1
    /\ all_links' = find_links(site.listing, epoch + 1)
    /\ rangeLen' = Len(site.listing)
    /\ i' = 0
    /\ session' = switch_to_frame(session, "listing")
    /\ obs' = [obs EXCEPT !.enum = 1]
    /\ pc' = "item"
    /\ UNCHANGED <<site, run, lang, page, METADATA, fs, ledgerFile>>

\* Mutant: the ledger is not written after the language's item loop.
BeAfterItemsNoFlush == "select"

\* Where the crawl goes when the item loop is exhausted (line 222 is inside
\* the language loop: the ledger is written after each language).
BeAfterItems == "flush"

\* Lines 179-181: loop test, then click all_links[i]; nothing catches.
BeItem ==
    /\ site.scraper = "belgium"
    /\ pc = "item"
    /\ IF i >= rangeLen
       THEN /\ pc' = BeAfterItems
            /\ lang' = IF BeAfterItems = "flush" THEN lang ELSE lang + 1
            /\ obs' = [obs EXCEPT !.crawled = @ + 1]
            /\ UNCHANGED <<epoch, session>>
       ELSE IF i >= Len(all_links)
       THEN \* all_links[i]: IndexError, the list read again is shorter
            /\ pc' = "crashed"
            /\ obs' = [obs EXCEPT !.raised = @ \cup {<<lang, i>>}, !.cause = "item"]
            /\ UNCHANGED <<lang, epoch, session>>
       ELSE IF FaultAt(i) = "click"
       THEN /\ pc' = "crashed"
            /\ obs' = [obs EXCEPT !.attempted = @ \cup {<<lang, i>>},
                                  !.raised = @ \cup {<<lang, i>>},
                                  !.stale = @ + (IF IsStale(all_links[i + 1], epoch)
                                                 THEN 1 ELSE 0),
                                  !.cause = "item"]
            /\ UNCHANGED <<lang, epoch, session>>
       ELSE /\ pc' = "extract"
            /\ epoch' = epoch + 1
            /\ \E f \in AfterClick(session.frame) : session' = [session EXCEPT !.frame = f]
            /\ obs' = [obs EXCEPT !.attempted = @ \cup {<<lang, i>>},
                                  !.stale = @ + (IF IsStale(all_links[i + 1], epoch)
                                                 THEN 1 ELSE 0)]
            /\ UNCHANGED lang
    /\ UNCHANGED <<site, run, all_links, rangeLen, i, page, METADATA, fs, ledgerFile>>

\* Lines 183-194: switch to the document frame, read the title element and
\* the page text.
BeExtract ==
    /\ site.scraper = "belgium"
    /\ pc = "extract"
    /\ epoch' = epoch + 1
    /\ session' = switch_to_frame(session, "document")
    /\ IF FaultAt(i) = "extract"
       THEN /\ pc' = "crashed"
            /\ obs' = [obs EXCEPT !.raised = @ \cup {<<lang, i>>}, !.cause = "item"]
            /\ UNCHANGED page
       ELSE /\ pc' = "persist"
            /\ page' = [title |-> DocTitle[DocAt(i)], text |-> DocText[DocAt(i)],
                        doc |-> DocAt(i)]
            /\ UNCHANGED obs
    /\ UNCHANGED <<site, run, lang, all_links, rangeLen, i, METADATA, fs, ledgerFile>>

\* Outcome of lines 196-201 for the page read.
BePersistOutcome ==
    LET dest == be_create_destination_file(page.title, "txt", LANGUAGES[lang], fs)
    IN WriteAndRecord(dest, FaultAt(i), page.text, fs, METADATA,
                      be_append_to_metadata(METADATA, page.title,
                                            "www.ejustice.just.fgov.be/cgi/article.pl",
                                            dest, LANGUAGES[lang]))

\* Lines 196-201: build the path, write the file and append the record unless
\* the path exists; an exception leaves the function.
BePersist ==
    /\ site.scraper = "belgium"
    /\ pc = "persist"
    /\ fs' = BePersistOutcome.fs
    /\ METADATA' = BePersistOutcome.meta
    /\ obs' = [obs EXCEPT
                 !.raised = IF BePersistOutcome.raised THEN @ \cup {<<lang, i>>} ELSE @,
                 !.recorded = IF BePersistOutcome.appended THEN @ \cup {<<lang, i>>} ELSE @,
                 !.writes = @ + (IF BePersistOutcome.opened THEN 1 ELSE 0),
                 !.cause = IF BePersistOutcome.raised THEN "item" ELSE @]
    /\ pc' = IF BePersistOutcome.raised THEN "crashed" ELSE "back"
    /\ UNCHANGED <<site, run, lang, all_links, rangeLen, i, page, epoch, ledgerFile, session>>

\* Lines 203-219: leave the frame, click "back to menu" in the navigation
\* frame, switch to the listing frame again and collect the links again.
BeBack ==
    /\ site.scraper = "belgium"
    /\ pc = "back"
    /\ IF FaultAt(i) = "back"
       THEN /\ pc' = "crashed"
            /\ epoch' = epoch + 2
            /\ session' = switch_to_frame(switch_to_default(session), "nav")
            /\ obs' = [obs EXCEPT !.raised = @ \cup {<<lang, i>>}, !.cause = "item"]
            /\ UNCHANGED <<all_links, i, page>>
       ELSE /\ pc' = "item"
            /\ epoch' = epoch + 5
            /\ session' = switch_to_frame(switch_to_default(
                               switch_to_frame(switch_to_default(session), "nav")),
                               "listing")
            /\ all_links' = find_links(ListingAfterReturn, epoch + 5)
            /\ i' = i + 1
            /\ page' = NoPage
            /\ obs' = [obs EXCEPT !.enum = @ + 1]
    /\ UNCHANGED <<site, run, lang, rangeLen, METADATA, fs, ledgerFile>>

\* Line 222, inside the language loop: write the ledger, next language.
BeFlush ==
    /\ site.scraper = "belgium"
    /\ pc = "flush"
    /\ ledgerFile' = write_metadata_json(METADATA)
    /\ obs' = [obs EXCEPT !.flush = @ + 1]
    /\ lang' = lang + 1
    /\ pc' = "select"
    /\ UNCHANGED <<site, run, all_links, rangeLen, i, page, METADATA, epoch, fs, session>>

\* ------------------------------------------------------------ a second run
RunEnded == pc \in {"done", "returned", "crashed"}

\* The script is started again: a new process (METADATA is [] again, a new
\* browser session) against the same site and the same disk.
Rerun ==
    /\ RunEnded
    /\ run < MaxRuns
    /\ run' = run + 1
    /\ pc' = "start"
    /\ lang' = 0
    /\ all_links' = << >>
    /\ rangeLen' = 0
    /\ i' = 0
    /\ page' = NoPage
    /\ METADATA' = << >>
    /\ epoch' = 0
    /\ session' = NoSession
    /\ obs' = [NoObs EXCEPT !.prevEnd = pc]
    /\ UNCHANGED <<site, fs, ledgerFile>>

Next ==
    \/ BeStart \/ BeSelect \/ BeEnum \/ BeItem \/ BeExtract \/ BePersist \/ BeBack
    \/ BeFlush
    \/ DrcStart \/ DrcEnum \/ DrcItem \/ DrcExtract \/ DrcPersist \/ DrcFlush
    \/ Rerun

Spec == Init /\ [][Next]_vars

\* ================================================================ claims
NoFaults == \A k \in 1..Len(site.faults) : site.faults[k] = "none"
Categories == CategoriesOf(site.scraper)
Indices == 0..(Len(site.listing) - 1)

\* C1: in every crawl loop an exception raised while item i is processed
\* (clicked, extracted, written or recorded) never ends the category loop,
\* leaves no ledger record for item i, and every later item of the listing is
\* still attempted.
C1_FaultIsolation ==
    /\ obs.cause # "item"
    /\ \A it \in obs.raised : site.faults[it[2] + 1] # "back" => it \notin obs.recorded
    /\ \A it \in obs.raised :
          RunEnded => \A k \in Indices : k > it[2] => <<it[1], k>> \in obs.attempted

\* C2: every click on all_links[i] uses a handle obtained after the most
\* recent navigation event of the session.
C2_NoStaleClick == obs.stale = 0

\* C3: when the item loop over a listing of n items has run to its end, the
\* link set has been enumerated exactly n + 1 times.
C3_EnumCount == pc = "flush" => obs.enum = rangeLen + 1

\* C4: a run that follows a completed run against the same site and the
\* same output directory opens no file for writing and appends no record.
C4_IdempotentRerun ==
    (run > 1 /\ obs.prevEnd = "done") => (obs.writes = 0 /\ METADATA = << >>)

\* C4 witness: a second run has gone through a listing of two working links
\* whose files the first run wrote, and has ended.
C4_Witness ==
    /\ run = 2 /\ obs.prevEnd = "done" /\ pc = "done"
    /\ Len(site.listing) = 2 /\ NoFaults
    /\ Cardinality(fs) >= 2
    /\ \A c \in 1..Len(Categories) : \A k \in Indices : <<c, k>> \in obs.attempted

C6_CategoryCoverage ==
    (site.scraper = "belgium" /\ site.ctl = "ok" /\ NoFaults /\ ~site.shrinks
     /\ RunEnded) =>
        /\ obs.selected = [c \in 1..Len(LANGUAGES) |-> c]
        /\ obs.crawled = Len(LANGUAGES)

\* C7 as stated: the ledger file is written at most once in a run, and only
\* after the crawl of every configured category has completed.
C7_Original ==
    /\ obs.flush <= 1
    /\ obs.flush >= 1 => obs.crawled = Len(Categories)
    /\ pc = "done" => obs.flush = 1

\* C7 as amended: the ledger file is written exactly once after each
\* category whose item loop ran to its end (once per run in scrape_drc_laws,
\* once per language in scrape_belgium_laws) and never while an item loop is
\* in progress.
C7_FlushPerCategory ==
    /\ obs.flush = obs.crawled - (IF pc = "flush" THEN 1 ELSE 0)
    /\ pc = "done" => obs.flush = Len(Categories)

\* C7 witness: a Belgian run has ended after writing the ledger three times.
C7_Witness ==
    /\ site.scraper = "belgium" /\ pc = "done" /\ obs.flush = Len(LANGUAGES)
    /\ Len(METADATA) >= Len(LANGUAGES)

\* The items whose open() or file.write() raised.
WriteFailed == {it \in obs.raised : site.faults[it[2] + 1] \in {"open", "write"}}

\* Every record of ledger m names a file that is on disk, completely written.
FilesOf(m) ==
    \A k \in 1..Len(m) :
        \E f \in fs : f.path = m[k].download_path /\ f.complete

\* C8: every record of METADATA, and every record of the ledger file once
\* written, has a download_path whose file is on disk and was written to the
\* end; an item whose file write (or any other step) raised has no record.
C8_LedgerFilesExist ==
    /\ FilesOf(METADATA)
    /\ FilesOf(ledgerFile.records)
    /\ WriteFailed \cap obs.recorded = {}

\* C8 witness: a ledger with a record has been written in a run in which the
\* write of another item's file raised.
C8_Witness ==
    /\ pc = "done" /\ ledgerFile.written /\ Len(ledgerFile.records) >= 1
    /\ \E it \in WriteFailed : site.faults[it[2] + 1] = "write"
    /\ \E f \in fs : ~f.complete

\* C9: no two records of METADATA have the same download_path.
C9_UniquePaths ==
    \A a, b \in 1..Len(METADATA) :
        a # b => METADATA[a].download_path # METADATA[b].download_path

\* C9 witness: two listed documents with different titles and the same
\* identifier were both read; the second was skipped and has no record.
C9_Witness ==
    /\ pc = "done" /\ run = 1 /\ NoFaults
    /\ site.listing = <<1, 2>>
    /\ DocTitle[1] # DocTitle[2]
    /\ \A c \in 1..Len(Categories) : {<<c, 0>>, <<c, 1>>} \subseteq obs.attempted
    /\ Len(METADATA) = Len(Categories)

\* The title the scraper takes from the page of document d.
PageTitle(d) ==
    IF site.scraper = "belgium" THEN DocTitle[d]
    ELSE PySlice(DocText[d], DrcTitleFrom, DrcTitleTo)

\* The path the scraper derives for document d in category c.
PagePath(d, c) ==
    IF site.scraper = "belgium"
    THEN generate_file_name(DocTitle[d], "txt", Categories[c])
    ELSE drc_file_path(PageTitle(d),
                       PySlice(DocText[d], 0 - DrcExtractFrom, 0 - DrcExtractTo),
                       "txt", Categories[c])

DistinctIdentities ==
    \A a, b \in 1..Len(site.listing) :
        a # b => PagePath(site.listing[a], 1) # PagePath(site.listing[b], 1)

\* The links of the listing at which no step raises, in listing order.
RECURSIVE Survivors(_)
Survivors(k) ==
    IF k > Len(site.listing) THEN << >>
    ELSE (IF site.faults[k] = "none" THEN <<k>> ELSE << >>) \o Survivors(k + 1)

RecordsOf(c) == SelectSeq(METADATA, LAMBDA r : r.language = Categories[c])

\* C10: a first run (empty output directory) over a listing of n items with
\* distinct identities, where clicking or extracting raises on the items of
\* F, ends with exactly one record and one file per item outside F in each
\* category, the records in listing order.
C10_EndToEnd ==
    (/\ RunEnded /\ run = 1 /\ site.bound /\ site.ctl = "ok"
     /\ DistinctIdentities
     /\ \A k \in 1..Len(site.faults) : site.faults[k] \in {"none", "click", "extract"})
    => \A c \in 1..Len(Categories) :
          /\ [k \in 1..Len(RecordsOf(c)) |-> RecordsOf(c)[k].title]
               = [k \in 1..Len(Survivors(1)) |-> PageTitle(site.listing[Survivors(1)[k]])]
          /\ {f.path : f \in {g \in fs : g.path.language = Categories[c]}}
               = {PagePath(site.listing[Survivors(1)[k]], c) : k \in 1..Len(Survivors(1))}

\* C11: whenever the crawl loop of scrape_belgium_laws is at the head of an
\* iteration it is about to run (i below the bound range() was built with),
\* i is inside the link list most recently read: the loop ends as soon as
\* i >= len(all_links) and never indexes outside the current list.
C11_LoopBound ==
    (site.scraper = "belgium" /\ pc = "item" /\ i < rangeLen) => i < Len(all_links)

\* C12: whenever scrape_belgium_laws is about to switch into a frame (the
\* listing frame at line 173, the document frame at line 184) the session is
\* at the default content: it never moves from one sibling frame to another.
C12_FrameDiscipline ==
    (site.scraper = "belgium" /\ pc \in {"enum", "extract"}) => session.frame = "default"

\* C13: once the browser session has been created, every way a run ends
\* (normal completion, early return, an escaping error) leaves the ledger
\* written to its file and the browser closed.
C13_Teardown ==
    (RunEnded /\ site.bound) =>
        /\ ledgerFile.written /\ ledgerFile.records = METADATA
        /\ ~session.open

\* C14: a file of the output directory, once it exists (written by an
\* earlier item of this run or by an earlier run, completely or not), is
\* never written again: every step leaves every existing file as it is.
C14_FilesNeverMutated == [][fs \subseteq fs']_vars

\* C14 witness: in a second run, two listed documents with different texts
\* and the same identifier have both been read, and the one file of that
\* identifier still holds the text of the first.
C14_Witness ==
    /\ run = 2 /\ pc = "done" /\ NoFaults
    /\ site.listing = <<1, 2>>
    /\ DocText[1] # DocText[2]
    /\ \A c \in 1..Len(Categories) : {<<c, 0>>, <<c, 1>>} \subseteq obs.attempted
    /\ \A f \in fs : f.text = DocText[1] /\ f.complete
    /\ Cardinality(fs) = Len(Categories)

\* s is t or t followed by exactly one more element.
ExtendsByAtMostOne(t, s) ==
    /\ Len(s) \in {Len(t), Len(t) + 1}
    /\ SubSeq(s, 1, Len(t)) = t

\* C15: within a run every step leaves METADATA as it is or extends it by
\* exactly one record at the end; no step (a flush, a skipped or failed item)
\* removes, reorders or changes a record.
C15_AppendOnly == [][run' = run => ExtendsByAtMostOne(METADATA, METADATA')]_vars

\* C15 witness: a ledger of two records has been written to its file and a
\* later item has been appended after the write.
C15_Witness ==
    /\ obs.flush >= 1 /\ Len(ledgerFile.records) >= 2
    /\ Len(METADATA) > Len(ledgerFile.records)
    /\ SubSeq(METADATA, 1, Len(ledgerFile.records)) = ledgerFile.records

\* C19: in scrape_belgium_laws, whenever the language button is about to be
\* looked up and clicked (every iteration of the language loop), the session
\* is at the default content.
C19_SelectFromDefault ==
    (site.scraper = "belgium" /\ pc = "select" /\ lang <= Len(LANGUAGES))
        => session.frame = "default"

\* ------------------------------------------------- the identity of a file
\* The persisting step of either scraper applied to arbitrary page content:
\* the page is drawn from a bounded set of titles instead of being served by
\* the site, and the step builds the identifier and writes the file.

\* Longest free part of a title drawn.
MaxTitleLen == 3

\* Characters the free part of a title is drawn from: an upper-case letter,
\* a digit, two non-word characters, the underscore and a non-ASCII letter.
IdentityChars == {"L", "1", " ", "!", "_", "e_acute"}

\* Lengths of the run of "a" put before the free part, so that titles end
\* just below and just above each truncation length.
PadLens == {0, DrcTitleMaxLen - 2, BelgiumMaxLen - 2}

Titles ==
    {Rep("a", n) \o t : n \in PadLens,
                        t \in UNION {[1..k -> IdentityChars] : k \in 0..MaxTitleLen}}

\* The page scrape_belgium_laws holds after lines 183-194: title and text
\* are read from different elements.
BelgiumPages == {[title |-> t, text |-> Rep(".", 2) \o t, doc |-> 0] : t \in Titles}

\* The page scrape_drc_laws holds after lines 172-181: the title is the text
\* from character 300 to 550; what comes before is filler.
DrcPages ==
    {[title |-> PySlice(Rep(c, DrcTitleFrom) \o t, DrcTitleFrom, DrcTitleTo),
      text |-> Rep(c, DrcTitleFrom) \o t, doc |-> 0] : c \in {".", "a"}, t \in Titles}

PagesOf(s) == IF s = "belgium" THEN BelgiumPages ELSE DrcPages

InitIdentity ==
    /\ site \in {st \in Sites : /\ st.listing = <<1>> /\ st.faults = <<"none">>
                                /\ st.ctl = "ok" /\ st.bound /\ ~st.shrinks}
    /\ run = 1
    /\ pc = "persist"
    /\ lang = 1
    /\ all_links = find_links(site.listing, 0)
    /\ rangeLen = 1
    /\ i = 0
    /\ page \in PagesOf(site.scraper)
    /\ METADATA = << >>
    /\ epoch = 0
    /\ fs = {}
    /\ ledgerFile = NoFile
    /\ session = switch_to_frame(ChromeBot, "document")
    /\ obs = NoObs

NextIdentity ==
    \/ BePersist
    \/ DrcPersist

SpecIdentity == InitIdentity /\ [][NextIdentity]_vars

\* The model's characters that lie in [a-z0-9-].
SlugChars == {"l", "o", "i", "a", "r", "t"} \cup DigitChars \cup {"-"}

\* The identifiers of the files on disk.
Identifiers == {f.path.name : f \in fs}

\* C16 (identity character set): the identifier of every file written
\* contains no character outside [a-z0-9-], and no two hyphens in a row
\* (each run of non-word characters of the title gave a single hyphen).
C16_IdentityCharset ==
    \A n \in Identifiers :
        /\ \A k \in 1..Len(n) : n[k] \in SlugChars
        /\ \A k \in 1..(Len(n) - 1) : ~(n[k] = "-" /\ n[k + 1] = "-")

\* C17 as stated: the identifier is at most 250 characters long in
\* scrape_belgium_laws and at most 200 characters long in scrape_drc_laws.
C17_Original ==
    \A n \in Identifiers :
        Len(n) <= (IF site.scraper = "belgium" THEN BelgiumMaxLen ELSE DrcTitleMaxLen)

\* C17 (identity length bound), amended: the identifier is at most 250
\* characters long in both scrapers; in scrape_drc_laws it is the title part,
\* at most 200 characters, followed by a body-text part of at most 50.
C17_IdentityLength ==
    \A f \in fs :
        /\ Len(f.path.name) <= BelgiumMaxLen
        /\ site.scraper = "drc" =>
              LET titlePart == Take(Normalize(PySlice(f.text, DrcTitleFrom, DrcTitleTo)),
                                    DrcTitleMaxLen)
              IN /\ SubSeq(f.path.name, 1, Len(titlePart)) = titlePart
                 /\ Len(f.path.name) - Len(titlePart) \in 0..DrcTextMaxLen

\* A DRC identifier of full length: a title that normalizes to more than 200
\* characters, cut, and 50 characters of body text behind it.
C17_Witness ==
    /\ site.scraper = "drc"
    /\ \E f \in fs :
          /\ Len(Normalize(PySlice(f.text, DrcTitleFrom, DrcTitleTo))) > DrcTitleMaxLen
          /\ Len(f.path.name) = DrcTitleMaxLen + DrcTextMaxLen

\* C18 (title fallback): in scrape_belgium_laws an item whose title element
\* cannot be read is not failed: by the end of the run it has raised nothing
\* and its document is recorded in the ledger.
C18_TitleFallback ==
    (site.scraper = "belgium" /\ RunEnded) =>
        \A it \in obs.attempted :
            site.faults[it[2] + 1] = "extract" =>
                (it \notin obs.raised /\ it \in obs.recorded)
====
